---- MODULE Spec2Model ----
(***************************************************************************)
(* YT-slice: the POST handler of src/app/api/playlist/route.ts, which      *)
(* pages through a playlist's membership, selects a 1-based range, looks   *)
(* the selected videos up in batches, decodes their durations and reduces  *)
(* them to a total and an average.                                         *)
(*                                                                         *)
(* Strings the code inspects character by character (durations, the        *)
(* decimal strings a JSON body may carry for startVideo / endVideo) are    *)
(* sequences of one-character strings.                                     *)
(***************************************************************************)
EXTENDS Integers, Sequences, FiniteSets, TLC

VARIABLES
    \* ---- the request and the process environment -------------------------
    playlistUrl,      \* request body: a url, "" when absent
    startVideo,       \* request body: a JSON value (undefined, number, string)
    endVideo,         \* request body: a JSON value
    completePlaylist, \* request body: BOOLEAN
    apiKey,           \* process.env.YOUTUBE_API_KEY: "" (absent) or a key
    \* ---- the catalog service (environment) -------------------------------
    catalog,          \* [len, kind, page]: the playlist the service holds
    calls,            \* every fetch() issued so far, in order
    pages,            \* the bodies of the membership pages answered so far
    \* ---- locals of POST / fetchAllPlaylistItems / fetchVideoDetails ------
    pc,               \* position of the handler
    nextPageToken,    \* fetchAllPlaylistItems: cursor for the next request
    allItems,         \* fetchAllPlaylistItems: accumulator; then playlistItems
    selectedItems,    \* POST
    videoIds,         \* POST
    detailsCalled,    \* POST reached its call of fetchVideoDetails (line 167)
    i,                \* fetchVideoDetails: loop index (0-based)
    allVideos,        \* fetchVideoDetails: accumulator; then videoDetails
    selectedVideos,   \* POST
    totalDuration,    \* POST
    averageDuration,  \* POST
    playlistTitle,    \* POST
    response,         \* the NextResponse returned, [status |-> 0] before
    \* ---- the duration codec exercised on its own -------------------------
    duration,         \* argument of parseDuration
    hms,              \* <<h, m, s>> when duration was formatted from them
    decoded           \* result of parseDuration, -1 before the call

vars == <<playlistUrl, startVideo, endVideo, completePlaylist, apiKey,
          catalog, calls, pages, pc, nextPageToken, allItems, selectedItems,
          videoIds, detailsCalled, i, allVideos, selectedVideos, totalDuration,
          averageDuration, playlistTitle, response, duration, hms, decoded>>

requestVars == <<playlistUrl, startVideo, endVideo, completePlaylist, apiKey,
                 catalog>>

codecVars == <<duration, hms, decoded>>

----------------------------------------------------------------------------
(* Generic helpers                                                         *)

Min(a, b) == IF a < b THEN a ELSE b

Max(a, b) == IF a > b THEN a ELSE b

\* F(val) with val evaluated once, as a const declaration holds its value
Once(val, F(_)) == CHOOSE r \in {F(x) : x \in {val}} : TRUE

RECURSIVE Concat(_)
Concat(ss) == IF ss = <<>> THEN <<>> ELSE Head(ss) \o Concat(Tail(ss))

\* the sum of s[lo..hi], by halves
RECURSIVE SumRange(_, _, _)
SumRange(s, lo, hi) ==
    IF lo > hi THEN 0
    ELSE IF lo = hi THEN s[lo]
    ELSE Once((lo + hi) \div 2,
              LAMBDA mid : SumRange(s, lo, mid) + SumRange(s, mid + 1, hi))

SumSeq(s) == SumRange(s, 1, Len(s))

----------------------------------------------------------------------------
(* Decimal strings                                                         *)

Digits == <<"0", "1", "2", "3", "4", "5", "6", "7", "8", "9">>

DigitChars == {Digits[k] : k \in 1..10}

DigitVal(c) == (CHOOSE k \in 1..10 : Digits[k] = c) - 1

\* parseInt(ds, 10) for a non-empty run of decimal digits
RECURSIVE parseInt(_)
parseInt(ds) ==
    IF ds = <<>> THEN 0
    ELSE parseInt(SubSeq(ds, 1, Len(ds) - 1)) * 10 + DigitVal(ds[Len(ds)])

\* String(n) for a non-negative integer
RECURSIVE ToDigits(_)
ToDigits(n) ==
    IF n < 10 THEN <<Digits[n + 1]>>
    ELSE ToDigits(n \div 10) \o <<Digits[(n % 10) + 1]>>

----------------------------------------------------------------------------
(* parseDuration, route.ts 40-52                                           *)
(* regex  /PT(?:(\d+)H)?(?:(\d+)M)?(?:(\d+)S)?/  is not anchored: it       *)
(* matches at the first "PT" of the string, every group after it being     *)
(* optional, and ignores whatever follows the groups it took.              *)

\* index of the first "PT" in s, 0 when there is none (match === null)
FirstPT(s) ==
    LET hits == {p \in 1..(Len(s) - 1) : s[p] = "P" /\ s[p + 1] = "T"}
    IN  IF hits = {} THEN 0 ELSE CHOOSE p \in hits : \A q \in hits : p <= q

\* first index >= q that does not hold a digit (Len(s) + 1 at the end)
RECURSIVE DigitRunEnd(_, _)
DigitRunEnd(s, q) ==
    IF q <= Len(s) /\ s[q] \in DigitChars THEN DigitRunEnd(s, q + 1) ELSE q

\* one optional group (?:(\d+)U)? tried at position q: the captured digits
\* (<<>> for an undefined capture) and the position after the group
Group(s, q, unit) ==
    Once(DigitRunEnd(s, q),
         LAMBDA e : IF e > q /\ e <= Len(s) /\ s[e] = unit
                    THEN [cap |-> SubSeq(s, q, e - 1), next |-> e + 1]
                    ELSE [cap |-> <<>>, next |-> q])

\* match[k] || '0'
OrZero(cap) == IF cap = <<>> THEN <<"0">> ELSE cap

DurationMutHoursAsMinutes(hours, minutes, seconds) ==
    hours * 60 + minutes * 60 + seconds

DurationSeconds(hours, minutes, seconds) ==
    hours * 3600 + minutes * 60 + seconds

\* the groups of the match at position p of str, in the order H, M, S
Components(str, p) ==
    Once(Group(str, p + 2, "H"), LAMBDA gh :
    Once(Group(str, gh.next, "M"), LAMBDA gm :
    Once(Group(str, gm.next, "S"), LAMBDA gs :
         DurationSeconds(parseInt(OrZero(gh.cap)),
                         parseInt(OrZero(gm.cap)),
                         parseInt(OrZero(gs.cap))))))

parseDuration(s) ==
    Once(s, LAMBDA str :
    Once(FirstPT(str), LAMBDA p :
         IF p = 0 THEN 0 ELSE Components(str, p)))

----------------------------------------------------------------------------
(* JSON values of the request body and the JavaScript operators applied    *)
(* to them (route.ts 114, 154, 162)                                        *)

Undefined == [t |-> "undefined", v |-> 0]

Num(n) == [t |-> "number", v |-> n]

\* a string of decimal digits, as an <input type="number"> submits it
Str(ds) == [t |-> "string", v |-> ds]

\* !x
Falsy(x) ==
    \/ x.t = "undefined"
    \/ x.t = "number" /\ x.v = 0
    \/ x.t = "string" /\ x.v = <<>>

\* ToNumber(x) for a number or a string of decimal digits ("" is 0)
ToNumber(x) == IF x.t = "string" THEN parseInt(x.v) ELSE x.v

\* a < b on two strings: by code units, a proper prefix being smaller
RECURSIVE LexLess(_, _)
LexLess(a, b) ==
    IF b = <<>> THEN FALSE
    ELSE IF a = <<>> THEN TRUE
    ELSE IF Head(a) # Head(b) THEN DigitVal(Head(a)) < DigitVal(Head(b))
    ELSE LexLess(Tail(a), Tail(b))

\* a < b : two strings compare as strings, anything else as numbers
JsLess(a, b) ==
    IF a.t = "string" /\ b.t = "string" THEN LexLess(a.v, b.v)
    ELSE ToNumber(a) < ToNumber(b)

\* Array.prototype.slice(begin, end) with integer arguments
Slice(arr, begin, end) ==
    LET len == Len(arr)
        k   == IF begin < 0 THEN Max(len + begin, 0) ELSE Min(begin, len)
        f   == IF end < 0 THEN Max(len + end, 0) ELSE Min(end, len)
    IN  [j \in 1..Max(f - k, 0) |-> arr[k + j]]

----------------------------------------------------------------------------
(* Bounds of the model                                                     *)

MaxLen == 120        \* longest playlist the catalog holds

PageSmall == 20      \* a page size the catalog may use below maxResults

MaxNum == 3          \* h, m, s range over 0..MaxNum and two samples beyond

MaxStrLen == 5       \* longest arbitrary string handed to parseDuration

(* Program constants                                                       *)

MaxResults == 50     \* maxResults of a membership page request

BatchSize == 50      \* ids per details request

FallbackDuration == <<"P", "T", "0", "S">>

FallbackTitle == "Unknown Playlist"

NaN == -1            \* Math.round(0 / 0); no duration is negative

----------------------------------------------------------------------------
(* The catalog service: what it holds and how it answers                   *)

DupPeriod == 2

UrlValid == "https://www.youtube.com/playlist?list=PL1"

UrlOther == "https://example.com/watch?v=1"

\* extractPlaylistId, route.ts 34-38, on the urls of the model
extractPlaylistId(url) == IF url = UrlValid THEN "PL1" ELSE ""

VideoIdAt(cat, pos) ==
    IF cat.kind = "dups" THEN ((pos - 1) % DupPeriod) + 1 ELSE pos

\* a membership entry: snippet.resourceId.videoId and snippet.title
Item(cat, pos) == [videoId |-> VideoIdAt(cat, pos), title |-> pos]

Membership(cat) == [pos \in 1..cat.len |-> Item(cat, pos)]

\* videos the details lookup knows nothing about (deleted, private)
Available(cat, id) == cat.kind # "gaps" \/ id % 3 # 2

DurationTable ==
    << <<"P", "T", "1", "M", "4", "0", "S">>,
       <<"P", "T", "1", "M", "4", "1", "S">>,
       <<"P", "T", "2", "M">>,
       <<"P", "T", "3", "M">>,
       <<"P", "T", "5", "M">>,
       <<"P", "T", "1", "H", "2", "M", "3", "S">>,
       <<"P", "1", "D", "T", "1", "H">>,
       <<"P", "T", "4", "5", "S">> >>

CatalogDuration(id) == DurationTable[((id - 1) % Len(DurationTable)) + 1]

CatalogTitle == "My Playlist"

\* a cursor is <<offset>>; no cursor is <<>>
Truthy(tok) == tok # <<>>

\* the page the service answers to a request carrying cursor tok: up to
\* cat.page entries from the cursor's offset on, and a cursor if more remain
CatalogPage(cat, tok) ==
    LET off == IF Truthy(tok) THEN tok[1] ELSE 0
        k   == Min(cat.page, cat.len - off)
    IN  [items         |-> [j \in 1..k |-> Item(cat, off + j)],
         nextPageToken |-> IF off + k < cat.len THEN <<off + k>> ELSE <<>>]

\* the positive integers of S in ascending order
Ascending(S) ==
    Once(S, LAMBDA T :
         LET In(x) == x \in T
             top   == IF T = {} THEN 0 ELSE CHOOSE x \in T : \A y \in T : y <= x
         IN  SelectSeq([j \in 1..top |-> j], In))

Reverse(s) == [j \in 1..Len(s) |-> s[Len(s) + 1 - j]]

VideoItem(id) == [id |-> id, duration |-> CatalogDuration(id)]

\* the answers the service may give to a details request for the ids
CatalogVideos(cat, ids) ==
    LET known == {ids[j] : j \in 1..Len(ids)} \cap {id \in 1..cat.len : Available(cat, id)}
    IN  Once(Ascending(known), LAMBDA order :
        Once([j \in 1..Len(order) |-> VideoItem(order[j])], LAMBDA asc :
             {asc, Reverse(asc)}))

----------------------------------------------------------------------------
(* Steps of the request handler                                            *)

Call(kind, arg, outcome) == [kind |-> kind, arg |-> arg, outcome |-> outcome]

\* NextResponse.json({ error: msg }, { status })
ErrorResponse(status, msg) == [status |-> status, body |-> [error |-> msg]]

\* route.ts 114: !playlistUrl || (!completePlaylist && (!startVideo || !endVideo))
MissingFields ==
    \/ playlistUrl = ""
    \/ ~completePlaylist /\ (Falsy(startVideo) \/ Falsy(endVideo))

Continue == [status |-> 0, body |-> <<>>]

GateMutKeyUnchecked ==
    IF MissingFields
    THEN ErrorResponse(400, "Missing required fields")
    ELSE IF extractPlaylistId(playlistUrl) = ""
    THEN ErrorResponse(400, "Invalid YouTube playlist URL")
    ELSE Continue

\* route.ts 114-135: the three early returns, in the order of the code
Gate ==
    IF MissingFields
    THEN ErrorResponse(400, "Missing required fields")
    ELSE IF apiKey = ""
    THEN ErrorResponse(500, "YouTube API key not configured")
    ELSE IF extractPlaylistId(playlistUrl) = ""
    THEN ErrorResponse(400, "Invalid YouTube playlist URL")
    ELSE Continue

\* route.ts 112-138: everything POST does before its first network call
Receive ==
    /\ pc = "start"
    /\ response' = Gate
    /\ pc' = IF Gate = Continue THEN "pages" ELSE "done"
    /\ UNCHANGED <<requestVars, codecVars, calls, pages, nextPageToken,
                   allItems, selectedItems, videoIds, detailsCalled, i,
                   allVideos, selectedVideos, totalDuration, averageDuration,
                   playlistTitle>>

ThrownMutRetry(at) == at

ThrownMutUncaught(at) == "thrown"

\* route.ts 73, 100, 219-225: a throw inside a loop leaves the loop and
\* POST's try block; the catch returns the response
Thrown(at) == "done"

PageCursorMutFirstPage(tok) == <<>>

\* route.ts 65-67: the pageToken parameter of the request (<<>>: not set)
PageCursor(tok) == IF Truthy(tok) THEN tok ELSE <<>>

\* route.ts 58-79: one iteration of the paging loop; a rejected response or
\* a failed fetch throws, and the throw ends POST in its catch (219-225)
FetchPage ==
    /\ pc = "pages"
    /\ \E outcome \in {"ok", "rejected", "throws"} :
         /\ calls' = Append(calls, Call("playlistItems", PageCursor(nextPageToken), outcome))
         /\ IF outcome = "ok"
            THEN LET data == CatalogPage(catalog, PageCursor(nextPageToken))
                 IN
                   /\ pages' = Append(pages, data)
                   /\ allItems' = allItems \o data.items
                   /\ nextPageToken' = data.nextPageToken
                   /\ pc' = IF Truthy(data.nextPageToken) THEN "pages" ELSE "select"
                   /\ UNCHANGED response
            ELSE /\ response' = ErrorResponse(500, "Failed to fetch playlist items")
                 /\ pc' = Thrown("pages")
                 /\ UNCHANGED <<pages, allItems, nextPageToken>>
    /\ UNCHANGED <<requestVars, codecVars, selectedItems, videoIds,
                   detailsCalled, i, allVideos, selectedVideos, totalDuration,
                   averageDuration, playlistTitle>>

\* route.ts 154
RangeInvalid(start, end, len) ==
    \/ JsLess(start, Num(1))
    \/ JsLess(end, start)
    \/ JsLess(Num(len), start)

SelectRangeMutOneBased(items, start, end) ==
    Slice(items, ToNumber(start), Min(ToNumber(end), Len(items)))

\* route.ts 162
SelectRange(items, start, end) ==
    Slice(items, ToNumber(start) - 1, Min(ToNumber(end), Len(items)))

IsEmptyMutUnchecked(items) == FALSE

\* route.ts 140
IsEmpty(items) == Len(items) = 0

\* route.ts 140-167: the empty check, the selection and the call of
\* fetchVideoDetails (its allVideos = [] and i = 0)
Select ==
    /\ pc = "select"
    /\ IF IsEmpty(allItems)
       THEN /\ response' = ErrorResponse(404, "Playlist is empty or not found")
            /\ pc' = "done"
            /\ UNCHANGED <<selectedItems, videoIds, detailsCalled, i, allVideos>>
       ELSE IF ~completePlaylist /\ RangeInvalid(startVideo, endVideo, Len(allItems))
       THEN /\ response' = ErrorResponse(400, "Invalid video range")
            /\ pc' = "done"
            /\ UNCHANGED <<selectedItems, videoIds, detailsCalled, i, allVideos>>
       ELSE /\ selectedItems' = IF completePlaylist THEN allItems
                                ELSE SelectRange(allItems, startVideo, endVideo)
            /\ videoIds' = [j \in 1..Len(selectedItems') |-> selectedItems'[j].videoId]
            /\ detailsCalled' = TRUE
            /\ i' = 0
            /\ allVideos' = <<>>
            /\ pc' = "details"
            /\ UNCHANGED response
    /\ UNCHANGED <<requestVars, codecVars, calls, pages, nextPageToken,
                   allItems, selectedVideos, totalDuration, averageDuration,
                   playlistTitle>>

BatchMutOverlap(ids, from) == Slice(ids, from, from + BatchSize + 1)

\* route.ts 89
Batch(ids, from) == Slice(ids, from, from + BatchSize)

\* route.ts 88-105: one iteration of the batching loop
FetchBatch ==
    /\ pc = "details"
    /\ i < Len(videoIds)
    /\ \E outcome \in {"ok", "rejected", "throws"} :
         /\ calls' = Append(calls, Call("videos", Batch(videoIds, i), outcome))
         /\ IF outcome = "ok"
            THEN \E items \in CatalogVideos(catalog, Batch(videoIds, i)) :
                   /\ allVideos' = allVideos \o items
                   /\ i' = i + BatchSize
                   /\ pc' = "details"
                   /\ UNCHANGED response
            ELSE /\ response' = ErrorResponse(500, "Failed to fetch video details")
                 /\ pc' = Thrown("details")
                 /\ UNCHANGED <<allVideos, i>>
    /\ UNCHANGED <<requestVars, codecVars, pages, nextPageToken, allItems,
                   selectedItems, videoIds, detailsCalled, selectedVideos,
                   totalDuration, averageDuration, playlistTitle>>

FindMutAnyFirst(details, id) == IF details = <<>> THEN 0 ELSE 1

\* videoDetails.find(v => v.id === id): index of the first match, 0 for none
Find(details, id) ==
    LET hits == {j \in 1..Len(details) : details[j].id = id}
    IN  IF hits = {} THEN 0 ELSE CHOOSE j \in hits : \A k \in hits : j <= k

SummaryMutNoDefault(item, details) ==
    LET at == Find(details, item.videoId)
    IN  [id              |-> item.videoId,
         title           |-> item.title,
         duration        |-> IF at = 0 THEN <<>> ELSE details[at].duration,
         durationSeconds |-> IF at = 0 THEN NaN
                             ELSE parseDuration(details[at].duration)]

\* route.ts 170-179: the summary of one selected entry
Summary(item, details) ==
    Once(Find(details, item.videoId), LAMBDA at :
        [id              |-> item.videoId,
         title           |-> item.title,
         duration        |-> IF at = 0 \/ details[at].duration = <<>>
                             THEN FallbackDuration
                             ELSE details[at].duration,
         durationSeconds |-> IF at = 0 THEN 0
                             ELSE parseDuration(details[at].duration)])

\* Math.round(x / n): the nearest integer, halves up; 0 / 0 is NaN
Average(total, n) ==
    IF n = 0 THEN NaN ELSE (2 * total + n) \div (2 * n)

\* route.ts 169-187: fetchVideoDetails has returned; join, reduce, and the
\* initial value of playlistTitle
Aggregate ==
    /\ pc = "details"
    /\ ~(i < Len(videoIds))
    /\ selectedVideos' = [j \in 1..Len(selectedItems) |-> Summary(selectedItems[j], allVideos)]
    /\ totalDuration' = SumSeq([j \in 1..Len(selectedVideos') |-> selectedVideos'[j].durationSeconds])
    /\ averageDuration' = Average(totalDuration', Len(selectedVideos'))
    /\ playlistTitle' = FallbackTitle
    /\ pc' = "title"
    /\ UNCHANGED <<requestVars, codecVars, calls, pages, nextPageToken,
                   allItems, selectedItems, videoIds, detailsCalled, i,
                   allVideos, response>>

TitleAfterMutUnguarded(title, outcome) ==
    IF outcome = "ok" THEN CatalogTitle
    ELSE IF outcome = "empty" THEN ""
    ELSE title

\* route.ts 195-200: the title after the lookup; "empty" is an ok response
\* without items, "rejected" and "throws" leave the initial value
TitleAfter(title, outcome) == IF outcome = "ok" THEN CatalogTitle ELSE title

\* route.ts 188-217: the best-effort title lookup and the result
TitleAndRespond ==
    /\ pc = "title"
    /\ \E outcome \in {"ok", "empty", "rejected", "throws"} :
         /\ calls' = Append(calls, Call("playlists", <<>>, outcome))
         /\ playlistTitle' = TitleAfter(playlistTitle, outcome)
    /\ response' = [status |-> 200,
                    body   |-> [playlist        |-> [title       |-> playlistTitle',
                                                     totalVideos |-> Len(allItems)],
                                selectedVideos  |-> selectedVideos,
                                totalDuration   |-> totalDuration,
                                averageDuration |-> averageDuration]]
    /\ pc' = "done"
    /\ UNCHANGED <<requestVars, codecVars, pages, nextPageToken, allItems,
                   selectedItems, videoIds, detailsCalled, i, allVideos,
                   selectedVideos, totalDuration, averageDuration>>

----------------------------------------------------------------------------
(* Requests and catalogs of the model                                      *)

NumVals == {0, 1, 2, 3, 5, BatchSize, BatchSize + 1, MaxLen, MaxLen + 1}

StrVals == {ToDigits(2), ToDigits(9), ToDigits(10)}

JsonVals == {Undefined} \cup {Num(n) : n \in NumVals} \cup {Str(ds) : ds \in StrVals}

Lens == {0, 1, 3, 5, MaxResults + 1, MaxLen}

\* the service pages by maxResults, or by less when the playlist is long
Catalogs ==
    {c \in [len : Lens, kind : {"plain", "dups", "gaps"}, page : {PageSmall, MaxResults}] :
        c.page = MaxResults \/ c.len > MaxResults}

Locals(at) ==
    /\ calls = <<>>
    /\ pages = <<>>
    /\ pc = at
    /\ nextPageToken = <<>>
    /\ allItems = <<>>
    /\ selectedItems = <<>>
    /\ videoIds = <<>>
    /\ detailsCalled = FALSE
    /\ i = 0
    /\ allVideos = <<>>
    /\ selectedVideos = <<>>
    /\ totalDuration = 0
    /\ averageDuration = 0
    /\ playlistTitle = ""
    /\ response = Continue

\* a request that reaches the catalog: every range against every catalog;
\* with the complete-playlist flag the page sends startVideo 1, endVideo -1
\* (page.tsx 96-101); a request stopped before the catalog, against one
Init ==
    /\ Locals("start")
    /\ duration = <<>> /\ hms = <<>> /\ decoded = -1
    /\ \/ /\ playlistUrl = UrlValid /\ apiKey = "key"
          /\ catalog \in Catalogs
          /\ \/ /\ completePlaylist = FALSE
                /\ startVideo \in JsonVals /\ endVideo \in JsonVals
             \/ /\ completePlaylist = TRUE
                /\ startVideo \in {Undefined, Num(1)}
                /\ endVideo \in {Undefined, Num(-1)}
       \/ /\ playlistUrl \in {"", UrlOther, UrlValid}
          /\ apiKey \in {"", "key"}
          /\ ~(playlistUrl = UrlValid /\ apiKey = "key")
          /\ catalog = [len |-> 3, kind |-> "plain", page |-> MaxResults]
          /\ completePlaylist \in BOOLEAN
          /\ startVideo \in {Undefined, Num(0), Num(1), Num(5)}
          /\ endVideo \in {Undefined, Num(0), Num(-1), Num(2)}

Next ==
    \/ Receive
    \/ FetchPage
    \/ Select
    \/ FetchBatch
    \/ Aggregate
    \/ TitleAndRespond

Spec == Init /\ [][Next]_vars

LiveRanges ==
    << <<Num(1), Num(MaxLen + 1)>>, <<Num(BatchSize + 1), Num(MaxLen)>>,
       <<Num(0), Num(1)>>, <<Num(5), Num(2)>>,
       <<Str(ToDigits(10)), Str(ToDigits(9))>> >>

\* the requests and catalogs followed to their end: the short and the long
\* playlist under both page sizes, the complete playlist and a few ranges
InitLive ==
    /\ Locals("start")
    /\ duration = <<>> /\ hms = <<>> /\ decoded = -1
    /\ playlistUrl \in {"", UrlOther, UrlValid}
    /\ apiKey \in {"", "key"}
    /\ catalog \in {c \in Catalogs : c.len \in {0, 3, MaxLen} /\ c.kind # "dups"}
    /\ \/ /\ completePlaylist = TRUE
          /\ startVideo = Num(1) /\ endVideo = Num(-1)
       \/ /\ completePlaylist = FALSE
          /\ \E k \in 1..Len(LiveRanges) :
                startVideo = LiveRanges[k][1] /\ endVideo = LiveRanges[k][2]

\* the handler runs on one thread and is resumed at each await once the
\* call returns: a step that can be taken is eventually taken
SpecLive == InitLive /\ [][Next]_vars /\ WF_vars(Next)

----------------------------------------------------------------------------
(* The duration codec on its own: parseDuration applied to one string      *)

\* the encoding of h hours, m minutes, s seconds that emits a component
\* only when it is present (non-zero)
Format(h, m, s) ==
    <<"P", "T">>
    \o (IF h > 0 THEN ToDigits(h) \o <<"H">> ELSE <<>>)
    \o (IF m > 0 THEN ToDigits(m) \o <<"M">> ELSE <<>>)
    \o (IF s > 0 THEN ToDigits(s) \o <<"S">> ELSE <<>>)

CompVals == 0..MaxNum \cup {12, 45}

CodecAlphabet == {"P", "T", "H", "M", "S", "1", "x"}

RECURSIVE StringsUpTo(_)
StringsUpTo(n) ==
    IF n = 0 THEN {<<>>}
    ELSE LET shorter == StringsUpTo(n - 1)
         IN  shorter \cup {Append(w, c) : w \in {v \in shorter : Len(v) = n - 1},
                                          c \in CodecAlphabet}

InitCodec ==
    /\ Locals("codec")
    /\ playlistUrl = "" /\ apiKey = "" /\ completePlaylist = FALSE
    /\ startVideo = Undefined /\ endVideo = Undefined
    /\ catalog = [len |-> 0, kind |-> "plain", page |-> MaxResults]
    /\ decoded = -1
    /\ \/ /\ duration \in StringsUpTo(MaxStrLen)
          /\ hms = <<>>
       \/ /\ hms \in CompVals \X CompVals \X CompVals
          /\ duration = Format(hms[1], hms[2], hms[3])

\* route.ts 40-52
Decode ==
    /\ pc = "codec"
    /\ decoded' = parseDuration(duration)
    /\ pc' = "decoded"
    /\ UNCHANGED <<requestVars, duration, hms, calls, pages, nextPageToken,
                   allItems, selectedItems, videoIds, detailsCalled, i,
                   allVideos, selectedVideos, totalDuration, averageDuration,
                   playlistTitle, response>>

NextCodec == Decode

SpecCodec == InitCodec /\ [][NextCodec]_vars

----------------------------------------------------------------------------
(* Properties                                                              *)

IsPageCall(c) == c.kind = "playlistItems"

IsVideosCall(c) == c.kind = "videos"

PageCalls == SelectSeq(calls, IsPageCall)

VideosCalls == SelectSeq(calls, IsVideosCall)

\* fetchAllPlaylistItems has returned: the last page answered had no cursor
MembershipFetched ==
    pages # <<>> /\ ~Truthy(pages[Len(pages)].nextPageToken)

Defined(x) == x.t # "undefined"

C2_InvalidRangeRejected ==
    LET N == Len(allItems)
        s == ToNumber(startVideo)
        e == ToNumber(endVideo)
        invalid == \/ Defined(startVideo) /\ s = 0
                   \/ /\ Defined(startVideo) /\ Defined(endVideo)
                      /\ MembershipFetched /\ N >= 1
                      /\ (e < s \/ s > N)
    IN  (~completePlaylist /\ invalid) =>
            /\ ~detailsCalled
            /\ pc = "done" => response.status = 400

\* C3: the first membership request carries no cursor, every later one the
\* cursor of the page answered just before it, none follows a page without
\* a cursor, and the returned sequence is the pages' items in order, which
\* is the membership the catalog holds.
C3_Pagination ==
    /\ PageCalls # <<>> => PageCalls[1].arg = <<>>
    /\ \A k \in 2..Len(PageCalls) :
         /\ PageCalls[k - 1].outcome = "ok"
         /\ Truthy(pages[k - 1].nextPageToken)
         /\ PageCalls[k].arg = pages[k - 1].nextPageToken
    /\ MembershipFetched =>
         /\ Len(PageCalls) = Len(pages)
         /\ allItems = Concat([k \in 1..Len(pages) |-> pages[k].items])
         /\ allItems = Membership(catalog)

\* three pages have been concatenated
C3_Witness ==
    /\ MembershipFetched /\ pc = "select"
    /\ Len(pages) = 3
    /\ Len(allItems) = MaxLen

\* C4: every details request carries between 1 and 50 ids, the batches in
\* call order are the ids requested so far, and when all have succeeded
\* there were ceil(n / 50) of them and they make up the whole input.
C4_Batching ==
    LET sent == Concat([k \in 1..Len(VideosCalls) |-> VideosCalls[k].arg])
        n    == Len(videoIds)
    IN  /\ \A k \in 1..Len(VideosCalls) :
             Len(VideosCalls[k].arg) \in 1..BatchSize
        /\ Len(sent) <= n
        /\ sent = SubSeq(videoIds, 1, Len(sent))
        /\ pc = "title" =>
             /\ Len(VideosCalls) = (n + BatchSize - 1) \div BatchSize
             /\ sent = videoIds

\* more than 100 ids went out in three requests
C4_Witness ==
    /\ pc = "title"
    /\ Len(videoIds) > 2 * BatchSize
    /\ Len(VideosCalls) = 3
    /\ Len(VideosCalls[3].arg) < BatchSize

\* C5, as stated: with the credential absent the handler answers 500 and
\* issues no network call.
C5_CredentialAbsentIs500 ==
    apiKey = "" =>
        /\ calls = <<>>
        /\ pc = "done" => response.status = 500

\* C5, amended: with the credential absent no network call is ever issued,
\* and the handler answers 500 with the configuration message unless the
\* request lacks a required field, which is answered 400 first.
C5_CredentialAbsent ==
    apiKey = "" =>
        /\ calls = <<>>
        /\ pc = "done" =>
             IF MissingFields
             THEN response = ErrorResponse(400, "Missing required fields")
             ELSE response = ErrorResponse(500, "YouTube API key not configured")

\* the configuration failure is reported even for a url that is no playlist
C5_Witness ==
    /\ apiKey = "" /\ pc = "done"
    /\ playlistUrl = UrlOther
    /\ response.status = 500

\* C6: a membership or details request that fails is the last network call
\* of the request: it is not re-issued, nothing is fetched after it, and
\* the request has ended in an error response.
C6_FailureAborts ==
    \A k \in 1..Len(calls) :
        (calls[k].kind \in {"playlistItems", "videos"} /\ calls[k].outcome # "ok") =>
            /\ k = Len(calls)
            /\ pc = "done"
            /\ response.status = 500

\* the second details batch was rejected after the first had succeeded
C6_Witness ==
    /\ pc = "done" /\ response.status = 500
    /\ Len(VideosCalls) = 2
    /\ VideosCalls[1].outcome = "ok"
    /\ VideosCalls[2].outcome = "rejected"

\* C7: once membership and details are fetched, the title lookup decides
\* nothing but the title: whatever its outcome the handler answers 200 with
\* the summaries, total and average computed before it, and the title is
\* 'Unknown Playlist' unless the lookup returned one.
C7_TitleIsolation ==
    (calls # <<>> /\ calls[Len(calls)].kind = "playlists") =>
        /\ pc = "done"
        /\ response.status = 200
        /\ response.body.selectedVideos =
             [k \in 1..Len(selectedItems) |-> Summary(selectedItems[k], allVideos)]
        /\ response.body.totalDuration = totalDuration
        /\ response.body.averageDuration = averageDuration
        /\ response.body.playlist.title =
             IF calls[Len(calls)].outcome = "ok" THEN CatalogTitle ELSE FallbackTitle

\* a title lookup that answered without items, under a non-trivial result
C7_Witness ==
    /\ response.status = 200
    /\ calls[Len(calls)].outcome = "empty"
    /\ response.body.playlist.title = FallbackTitle
    /\ response.body.totalDuration > 0

\* C8: a successful result has at least one selected video, its total is
\* the sum of their durationSeconds and its average is total / count
\* rounded to the nearest integer, halves up.
C8_Aggregation ==
    response.status = 200 =>
        LET out == response.body.selectedVideos
            n   == Len(out)
            sum == SumSeq([k \in 1..n |-> out[k].durationSeconds])
        IN  /\ n >= 1
            /\ response.body.totalDuration = sum
            /\ 2 * response.body.averageDuration * n <= 2 * sum + n
            /\ 2 * sum + n < 2 * (response.body.averageDuration + 1) * n

\* C9: a selected video the details lookup knows nothing about is listed
\* with durationSeconds 0 and duration 'PT0S' in a successful result, and
\* every other selected video with the catalog's duration and its decoding.
C9_MissingMetadata ==
    response.status = 200 =>
        LET out == response.body.selectedVideos
        IN  /\ Len(out) = Len(selectedItems)
            /\ \A k \in 1..Len(out) :
                 LET id == selectedItems[k].videoId
                 IN  IF Available(catalog, id)
                     THEN /\ out[k].duration = CatalogDuration(id)
                          /\ out[k].durationSeconds = parseDuration(CatalogDuration(id))
                     ELSE /\ out[k].duration = FallbackDuration
                          /\ out[k].durationSeconds = 0

\* a result that lists a video without metadata next to one with
C9_Witness ==
    /\ response.status = 200
    /\ \E k \in 1..Len(selectedItems) : ~Available(catalog, selectedItems[k].videoId)
    /\ \E k \in 1..Len(selectedItems) : response.body.selectedVideos[k].durationSeconds > 0

ContainsPT(s) == \E p \in 1..(Len(s) - 1) : s[p] = "P" /\ s[p + 1] = "T"

\* s is "PT", then an optional hours, minutes and seconds component, each a
\* run of digits and its unit letter, and nothing else
WellShaped(s) ==
    /\ Len(s) >= 2 /\ s[1] = "P" /\ s[2] = "T"
    /\ LET gh == Group(s, 3, "H")
           gm == Group(s, gh.next, "M")
           gs == Group(s, gm.next, "S")
       IN  gs.next = Len(s) + 1

RoundTrip ==
    hms # <<>> => decoded = hms[1] * 3600 + hms[2] * 60 + hms[3]

\* C10, as stated: the encoding of h, m, s decodes to h*3600 + m*60 + s,
\* and every string that is not of the expected shape decodes to 0.
C10_IllShapedIsZero ==
    pc = "decoded" =>
        /\ RoundTrip
        /\ ~WellShaped(duration) => decoded = 0

\* C10, amended: the encoding of h, m, s decodes to h*3600 + m*60 + s, and
\* the empty string and every string that does not contain "PT" decode to
\* 0; no string decodes to a negative number; what precedes the first
\* "PT" and what follows the components after it is ignored ('1PT1S' is
\* 1 and 'PT1Hx' is 3600).
C10_Decode ==
    pc = "decoded" =>
        /\ RoundTrip
        /\ duration = <<>> => decoded = 0
        /\ ~ContainsPT(duration) => decoded = 0
        /\ decoded >= 0
        /\ duration = <<"1", "P", "T", "1", "S">> => decoded = 1
        /\ duration = <<"P", "T", "1", "H", "x">> => decoded = 3600

\* 'PT1H2M3S' has been decoded to 3723
C10_Witness ==
    /\ pc = "decoded"
    /\ hms = <<1, 2, 3>>
    /\ duration = <<"P", "T", "1", "H", "2", "M", "3", "S">>
    /\ decoded = 3723

\* C11: when the fetched membership is empty the handler answers 404
\* 'Playlist is empty or not found', not the 400 of an invalid range,
\* whether the request asks for the complete playlist or for any range,
\* and it neither calls fetchVideoDetails nor issues a details request.
C11_EmptyIsNotFound ==
    (MembershipFetched /\ Len(allItems) = 0) =>
        /\ pc \in {"select", "done"}
        /\ ~detailsCalled
        /\ VideosCalls = <<>>
        /\ pc = "done" =>
             response = ErrorResponse(404, "Playlist is empty or not found")

\* an empty playlist asked for a range that a non-empty one would reject
C11_Witness ==
    /\ MembershipFetched /\ Len(allItems) = 0
    /\ pc = "done" /\ response.status = 404
    /\ ~completePlaylist
    /\ ToNumber(endVideo) < ToNumber(startVideo)

\* C12: selectedVideos lists the selected membership entries one for one
\* and in membership order: its k-th entry has the id and title of the k-th
\* selected entry, and the duration of whichever returned metadata has that
\* id, wherever the details responses placed it.
C12_MembershipOrder ==
    response.status = 200 =>
        LET out == response.body.selectedVideos
        IN  /\ Len(out) = Len(selectedItems)
            /\ \A k \in 1..Len(out) :
                 /\ out[k].id = selectedItems[k].videoId
                 /\ out[k].title = selectedItems[k].title
                 /\ \A j \in 1..Len(allVideos) :
                      allVideos[j].id = out[k].id =>
                          /\ out[k].duration = allVideos[j].duration
                          /\ out[k].durationSeconds = parseDuration(allVideos[j].duration)
            /\ \A k \in 1..(Len(out) - 1) :
                 /\ out[k].title < out[k + 1].title
                 /\ Membership(catalog)[out[k].title].videoId = out[k].id

\* two batches, the metadata of each returned in descending id order
C12_Witness ==
    /\ response.status = 200
    /\ Len(VideosCalls) >= 2
    /\ Len(allVideos) >= BatchSize + 2
    /\ Len(response.body.selectedVideos) >= 2
    /\ allVideos[1].id > allVideos[2].id
    /\ allVideos[BatchSize + 1].id > allVideos[BatchSize + 2].id
    /\ response.body.selectedVideos[1].id < response.body.selectedVideos[2].id

\* C13: every call returning, each request eventually has a response and
\* the handler has ended, and a response once produced is never replaced;
\* no membership page is requested after a page without a cursor, and no
\* more than ceil(n / 50) details requests are issued.
C13_Termination ==
    /\ <>(pc = "done" /\ response.status # 0)
    /\ [][response.status # 0 => response' = response]_vars
    /\ [](pc = "pages" => ~MembershipFetched)
    /\ [](Len(VideosCalls) <= (Len(videoIds) + BatchSize - 1) \div BatchSize)

\* a request that ended with a result after six pages and three batches
C13_Witness ==
    /\ pc = "done" /\ response.status = 200
    /\ Len(pages) = 6
    /\ Len(VideosCalls) = 3

====
